---------------------------- MODULE Spec2Model ----------------------------
(***************************************************************************)
(* A model of build_questions.py: the metadata tagger (extract_module,     *)
(* extract_difficulty) and the quiz parser parse_quiz_text (normalisation, *)
(* block splitting, and the per-block field extractor).                    *)
(*                                                                         *)
(* Text is modelled character by character: a Python str is a sequence of  *)
(* one-character strings, so that the regular expressions and the string   *)
(* methods of the source are computed, not assumed.                        *)
(***************************************************************************)
EXTENDS Integers, Sequences, FiniteSets, TLC

(***************************************************************************)
(* Bounds of the model.                                                    *)
(***************************************************************************)
\* The greatest number of raw lines of the blocks handed to the extractor.
MaxLines == 5
\* The greatest number of raw lines of a text handed to the splitter.
MaxTextLines == 5
\* The greatest number of pieces a label is made of.
MaxPieces == 3

(***************************************************************************)
(* Characters and strings.                                                 *)
(***************************************************************************)
UpperAlpha ==
  <<"A","B","C","D","E","F","G","H","I","J","K","L","M",
    "N","O","P","Q","R","S","T","U","V","W","X","Y","Z">>

LowerAlpha ==
  <<"a","b","c","d","e","f","g","h","i","j","k","l","m",
    "n","o","p","q","r","s","t","u","v","w","x","y","z">>

Digits == <<"0","1","2","3","4","5","6","7","8","9">>

\* str.lower() on one character
Lower(c) ==
  IF \E i \in 1..26 : UpperAlpha[i] = c
  THEN LowerAlpha[CHOOSE i \in 1..26 : UpperAlpha[i] = c]
  ELSE c

\* str.upper() on one character
Upper(c) ==
  IF \E i \in 1..26 : LowerAlpha[i] = c
  THEN UpperAlpha[CHOOSE i \in 1..26 : LowerAlpha[i] = c]
  ELSE c

\* str.lower()
LowerStr(s) == [i \in 1..Len(s) |-> Lower(s[i])]

\* \s of the re module, and the characters str.strip() removes
IsSpace(c) == c \in {" ", "\t", "\n", "\r"}

\* \d of the re module
IsDigit(c) == \E i \in 1..10 : Digits[i] = c

\* [A-D] under re.IGNORECASE
IsLetterAD(c) == Upper(c) \in {"A", "B", "C", "D"}

\* s[i-1:] in Python's indexing: the characters of s from position i on
From(s, i) == SubSeq(s, i, Len(s))

\* str.startswith
StartsWith(s, p) == Len(s) >= Len(p) /\ SubSeq(s, 1, Len(p)) = p

\* \s* from position i: the first position at or after i that holds no space
RECURSIVE SkipSpaces(_, _)
SkipSpaces(s, i) ==
  IF i <= Len(s) /\ IsSpace(s[i]) THEN SkipSpaces(s, i + 1) ELSE i

\* \d* from position i: the first position at or after i that holds no digit
RECURSIVE SkipDigits(_, _)
SkipDigits(s, i) ==
  IF i <= Len(s) /\ IsDigit(s[i]) THEN SkipDigits(s, i + 1) ELSE i

\* the last position at or before i that holds no space (0 when there is none)
RECURSIVE SkipSpacesBack(_, _)
SkipSpacesBack(s, i) ==
  IF i >= 1 /\ IsSpace(s[i]) THEN SkipSpacesBack(s, i - 1) ELSE i

\* str.strip()
strip(s) == SubSeq(s, SkipSpaces(s, 1), SkipSpacesBack(s, Len(s)))

\* int() of a digit string
RECURSIVE ToInt(_)
ToInt(ds) ==
  IF ds = <<>> THEN 0
  ELSE 10 * ToInt(SubSeq(ds, 1, Len(ds) - 1))
       + (CHOOSE i \in 1..10 : Digits[i] = ds[Len(ds)]) - 1

\* needle in s (Python's substring test), scanning the start positions
RECURSIVE ContainsFrom(_, _, _)
ContainsFrom(s, needle, i) ==
  IF i + Len(needle) - 1 > Len(s) THEN FALSE
  ELSE IF SubSeq(s, i, i + Len(needle) - 1) = needle THEN TRUE
  ELSE ContainsFrom(s, needle, i + 1)

Contains(s, needle) == ContainsFrom(s, needle, 1)

\* str.split("\n"): the position of the first line break at or after i
RECURSIVE NextNL(_, _)
NextNL(s, i) ==
  IF i > Len(s) \/ s[i] = "\n" THEN i ELSE NextNL(s, i + 1)

\* str.split("\n")
RECURSIVE SplitNL(_)
SplitNL(s) ==
  LET n == NextNL(s, 1)
  IN  IF n > Len(s) THEN <<s>>
      ELSE <<SubSeq(s, 1, n - 1)>> \o SplitNL(From(s, n + 1))

\* "\n".join
RECURSIVE JoinNL(_)
JoinNL(ls) ==
  IF ls = <<>> THEN <<>>
  ELSE IF Len(ls) = 1 THEN ls[1]
  ELSE ls[1] \o <<"\n">> \o JoinNL(Tail(ls))

\* the concatenation of a sequence of strings
RECURSIVE Concat(_)
Concat(ps) == IF ps = <<>> THEN <<>> ELSE ps[1] \o Concat(Tail(ps))

\* the sequences over S of length lo..hi
SeqsOf(S, lo, hi) == UNION {[1..n -> S] : n \in lo..hi}

None == "None"

NoNumber == <<>>

(***************************************************************************)
(* The metadata tagger.                                                    *)
(***************************************************************************)
\* str(n) of a natural number
RECURSIVE ToStr(_)
ToStr(n) ==
  IF n < 10 THEN <<Digits[n + 1]>>
  ELSE ToStr(n \div 10) \o <<Digits[(n % 10) + 1]>>

\* (?:md|mod)\s*0?(\d+) under re.IGNORECASE, tried at position i: the digits
\* of group 1, or <<>> when the pattern does not match there
ModuleGroupAt(s, i) ==
  LET low   == LowerStr(s)
      after == IF StartsWith(From(low, i), <<"m","d">>) THEN i + 2
               ELSE IF StartsWith(From(low, i), <<"m","o","d">>) THEN i + 3
               ELSE 0
      j     == SkipSpaces(s, after)
      \* 0? is greedy and gives its zero back when no digit follows it
      start == IF j + 1 <= Len(s) /\ s[j] = "0" /\ IsDigit(s[j + 1])
               THEN j + 1 ELSE j
  IN  IF after = 0 THEN <<>> ELSE SubSeq(s, start, SkipDigits(s, start) - 1)

\* re.search: the leftmost position where the pattern matches
RECURSIVE ModuleSearch(_, _)
ModuleSearch(s, i) ==
  IF i > Len(s) THEN <<>>
  ELSE IF ModuleGroupAt(s, i) # <<>> THEN ModuleGroupAt(s, i)
  ELSE ModuleSearch(s, i + 1)

extract_module(source_name) ==
  LET g == ModuleSearch(source_name, 1)
  IN  IF g # <<>> THEN <<"M","D">> \o ToStr(ToInt(g))
      ELSE <<"O","t","h","e","r">>

\* a plausible slip: the " tb med" alternative of the Medium test left out
extract_difficulty_no_tb_med(source_name) ==
  LET lower == LowerStr(source_name)
  IN  IF Contains(lower, <<"h","a","r","d">>) THEN "Hard"
      ELSE IF \/ Contains(lower, <<"m","e","d","i","u","m">>)
              \/ Contains(lower, <<"m","e","d"," ">>)
           THEN "Medium"
      ELSE IF Contains(lower, <<"e","a","s","y">>) THEN "Easy"
      ELSE "Unknown"

extract_difficulty(source_name) ==
  LET lower == LowerStr(source_name)
  IN  IF Contains(lower, <<"h","a","r","d">>) THEN "Hard"
      ELSE IF \/ Contains(lower, <<"m","e","d","i","u","m">>)
              \/ Contains(lower, <<"m","e","d"," ">>)
              \/ Contains(lower, <<" ","t","b"," ","m","e","d">>)
           THEN "Medium"
      ELSE IF Contains(lower, <<"e","a","s","y">>) THEN "Easy"
      ELSE "Unknown"

(***************************************************************************)
(* The line patterns of the field extractor.                               *)
(***************************************************************************)
\* re.match(r"^[A-D]\.", line, re.IGNORECASE)
IsOptionLine(line) ==
  Len(line) >= 2 /\ IsLetterAD(line[1]) /\ line[2] = "."

\* line.lower().startswith("answer:")
IsAnswerTag(line) ==
  StartsWith(LowerStr(line), <<"a","n","s","w","e","r",":">>)

\* line.lower().startswith("explanation:")
IsExplanationTag(line) ==
  StartsWith(LowerStr(line),
             <<"e","x","p","l","a","n","a","t","i","o","n",":">>)

\* re.match(r"^Q(\d+)\.\s*(.*)$", q_line, re.IGNORECASE)
MatchesQTag(line) ==
  /\ Len(line) >= 3
  /\ Lower(line[1]) = "q"
  /\ SkipDigits(line, 2) > 2
  /\ SkipDigits(line, 2) <= Len(line)
  /\ line[SkipDigits(line, 2)] = "."

\* int(m.group(1)) of the question-tag match
QTagNumber(line) == ToInt(SubSeq(line, 2, SkipDigits(line, 2) - 1))

\* m.group(2) of the question-tag match
QTagText(line) == From(line, SkipSpaces(line, SkipDigits(line, 2) + 1))

\* m.group(1).upper() of re.match(r"^([A-D])\.\s*(.*)$", line, re.IGNORECASE)
OptionLetter(line) == Upper(line[1])

\* m.group(2) of the option match
OptionText(line) == From(line, SkipSpaces(line, 3))

\* a plausible slip: the answer pattern written with one mandatory space
MatchesAnswer_one_space(line) ==
  /\ IsAnswerTag(line)
  /\ Len(line) >= 9
  /\ line[8] = " "
  /\ IsLetterAD(line[9])

\* re.match(r"^answer:\s*([A-D])", line, re.IGNORECASE)
MatchesAnswer(line) ==
  /\ IsAnswerTag(line)
  /\ SkipSpaces(line, 8) <= Len(line)
  /\ IsLetterAD(line[SkipSpaces(line, 8)])

\* m.group(1).upper() of the answer match
AnswerLetter(line) == Upper(line[SkipSpaces(line, 8)])

\* re.sub(r"^explanation:\s*", "", line, flags=re.IGNORECASE)
ExplanationText(line) == From(line, SkipSpaces(line, 13))

(***************************************************************************)
(* The loops of the field extractor, each computed as the code runs it.    *)
(* Positions are 1-based: position idx here is lines[idx - 1] in Python.   *)
(***************************************************************************)
\* a plausible slip: the answer-tag test of the continuation loop left out
QuestionContinues_no_answer_test(line) ==
  ~IsOptionLine(line)

\* the condition of the question continuation loop (lines 88-92), on a line
QuestionContinues(line) ==
  ~IsOptionLine(line) /\ ~IsAnswerTag(line)

\* the question continuation loop (lines 88-94)
RECURSIVE QuestionWrap(_, _, _)
QuestionWrap(ls, i, qt) ==
  IF i <= Len(ls) /\ QuestionContinues(ls[i])
  THEN QuestionWrap(ls, i + 1, qt \o <<" ">> \o ls[i])
  ELSE [idx |-> i, question_text |-> qt]

\* a plausible slip: the explanation-tag test of the option wrap left out
OptionContinues_no_explanation_test(line) ==
  ~IsOptionLine(line) /\ ~IsAnswerTag(line)

\* the condition of the option continuation loop (lines 108-113), on a line
OptionContinues(line) ==
  ~IsOptionLine(line) /\ ~IsAnswerTag(line) /\ ~IsExplanationTag(line)

\* the option continuation loop (lines 108-115)
RECURSIVE OptionWrap(_, _, _)
OptionWrap(ls, i, tp) ==
  IF i <= Len(ls) /\ OptionContinues(ls[i])
  THEN OptionWrap(ls, i + 1, tp \o <<" ">> \o ls[i])
  ELSE [idx |-> i, text_part |-> tp]

\* the options loop (lines 98-117); the full option pattern of line 101
\* matches every line the loop condition of line 98 lets in, so the
\* "continue" of line 103 is never taken
RECURSIVE OptionsLoop(_, _, _)
OptionsLoop(ls, i, opts) ==
  IF i <= Len(ls) /\ IsOptionLine(ls[i])
  THEN LET w == OptionWrap(ls, i + 1, OptionText(ls[i]))
       IN  OptionsLoop(ls, w.idx,
             Append(opts, [letter |-> OptionLetter(ls[i]),
                           text   |-> w.text_part]))
  ELSE [idx |-> i, options |-> opts]

\* the answer scan (lines 120-126) from position i
RECURSIVE AnswerScan(_, _, _)
AnswerScan(ls, i, start) ==
  IF i > Len(ls) THEN [answer_letter |-> None, idx |-> start]
  ELSE IF MatchesAnswer(ls[i])
       THEN [answer_letter |-> AnswerLetter(ls[i]), idx |-> i + 1]
  ELSE AnswerScan(ls, i + 1, start)

\* one pass of the explanation loop's body (lines 132-139)
ExplanationStep(line, st) ==
  IF IsExplanationTag(line)
  THEN [explanation_started |-> TRUE, explanation |-> ExplanationText(line)]
  ELSE IF st.explanation_started
       THEN [st EXCEPT !.explanation = st.explanation \o <<" ">> \o line]
  ELSE st

\* the explanation loop (lines 129-139) from position i
RECURSIVE ExplanationScan(_, _, _)
ExplanationScan(ls, i, st) ==
  IF i > Len(ls) THEN st.explanation
  ELSE ExplanationScan(ls, i + 1, ExplanationStep(ls[i], st))

\* a plausible slip: "and" written for the "or" of the drop test
Malformed_and(opts, letter) == opts = <<>> /\ letter = None

\* the drop test of line 141
Malformed(opts, letter) == opts = <<>> \/ letter = None

\* the list comprehension of lines 145-153
AnswerOptions(opts, letter, expl) ==
  [k \in 1..Len(opts) |->
     [text      |-> opts[k].text,
      isCorrect |-> opts[k].letter = letter,
      rationale |-> expl]]

\* [l.strip() for l in block.split("\n") if l.strip()] (line 69)
RECURSIVE StripNonEmpty(_)
StripNonEmpty(raw) ==
  IF raw = <<>> THEN <<>>
  ELSE IF strip(raw[1]) # <<>>
       THEN <<strip(raw[1])>> \o StripNonEmpty(Tail(raw))
  ELSE StripNonEmpty(Tail(raw))

BlockLines(block) == StripNonEmpty(SplitNL(block))

(***************************************************************************)
(* Normalisation and the block splitter.                                   *)
(***************************************************************************)
\* text.replace("\r\n", "\n")
RECURSIVE ReplaceCRLF(_)
ReplaceCRLF(s) ==
  IF s = <<>> THEN <<>>
  ELSE IF Len(s) >= 2 /\ s[1] = "\r" /\ s[2] = "\n"
       THEN <<"\n">> \o ReplaceCRLF(From(s, 3))
  ELSE <<s[1]>> \o ReplaceCRLF(Tail(s))

\* the lookahead (?=Q\d+\.) at position p (no re.IGNORECASE here)
MarkerAt(s, p) ==
  /\ p <= Len(s)
  /\ s[p] = "Q"
  /\ SkipDigits(s, p + 1) > p + 1
  /\ SkipDigits(s, p + 1) <= Len(s)
  /\ s[SkipDigits(s, p + 1)] = "."

\* the backtracking of the greedy \s*: the last line break at or before e,
\* after position i, that the lookahead follows; the position after it, or 0
RECURSIVE SeparatorBacktrack(_, _, _)
SeparatorBacktrack(s, i, e) ==
  IF e <= i THEN 0
  ELSE IF s[e] = "\n" /\ MarkerAt(s, e + 1) THEN e + 1
  ELSE SeparatorBacktrack(s, i, e - 1)

\* a plausible slip: the separator pattern written without its blank line,
\* \n(?=Q\d+\.)
SeparatorEnd_no_blank_line(s, i) ==
  IF s[i] = "\n" /\ MarkerAt(s, i + 1) THEN i + 1 ELSE 0

\* \n\s*\n(?=Q\d+\.) tried at position i: the position after the match, or 0
SeparatorEnd(s, i) ==
  IF s[i] # "\n" THEN 0
  ELSE SeparatorBacktrack(s, i, SkipSpaces(s, i + 1) - 1)

\* re.split: the scan for the leftmost match from position i, the current
\* block having started at position from
RECURSIVE SplitScan(_, _, _)
SplitScan(s, i, from) ==
  IF i > Len(s) THEN <<From(s, from)>>
  ELSE IF SeparatorEnd(s, i) # 0
       THEN <<SubSeq(s, from, i - 1)>>
            \o SplitScan(s, SeparatorEnd(s, i), SeparatorEnd(s, i))
  ELSE SplitScan(s, i + 1, from)

\* re.split(r"\n\s*\n(?=Q\d+\.)", text)
SplitBlocks(s) == SplitScan(s, 1, 1)

(***************************************************************************)
(* The state of parse_quiz_text.                                           *)
(***************************************************************************)
VARIABLES
  source_name,     \* the label argument
  module,          \* extract_module(source_name)
  difficulty,      \* extract_difficulty(source_name)
  text,            \* the text argument, then the normalised text
  blocks,          \* the result of re.split
  bi,              \* how many blocks the for loop has taken
  lines,           \* the stripped non-empty lines of the current block
  idx,             \* the position of the next line (1-based)
  qnum,            \* <<n>> for questionNumber n, NoNumber for Python's None
  question_text,
  options,         \* the consumed options, each [letter, text]
  answer_letter,   \* "A".."D", or None
  explanation,
  questions,       \* the result list
  pc               \* where the function stands

vars ==
  <<source_name, module, difficulty, text, blocks, bi, lines, idx, qnum,
    question_text, options, answer_letter, explanation, questions, pc>>

locals == <<lines, idx, qnum, question_text, options, answer_letter,
            explanation>>

\* the places where the for loop of line 68 takes its next block
LoopHeads == {"loop", "appended", "skipped"}

(***************************************************************************)
(* The steps of parse_quiz_text.                                           *)
(***************************************************************************)
\* lines 58-59
TagMetadata ==
  /\ pc = "tag"
  /\ module' = extract_module(source_name)
  /\ difficulty' = extract_difficulty(source_name)
  /\ pc' = "normalize"
  /\ UNCHANGED <<source_name, text, blocks, bi, locals, questions>>

\* line 61
Normalize ==
  /\ pc = "normalize"
  /\ text' = strip(ReplaceCRLF(text))
  /\ pc' = "check"
  /\ UNCHANGED <<source_name, module, difficulty, blocks, bi, locals,
                 questions>>

\* lines 62-63
ReturnEmpty ==
  /\ pc = "check"
  /\ text = <<>>
  /\ pc' = "done"
  /\ UNCHANGED <<source_name, module, difficulty, text, blocks, bi, locals,
                 questions>>

\* line 66
Split ==
  /\ pc = "check"
  /\ text # <<>>
  /\ blocks' = SplitBlocks(text)
  /\ pc' = "loop"
  /\ UNCHANGED <<source_name, module, difficulty, text, bi, locals,
                 questions>>

\* lines 68-73
BeginBlock ==
  /\ pc \in LoopHeads
  /\ bi < Len(blocks)
  /\ bi' = bi + 1
  /\ lines' = BlockLines(blocks[bi + 1])
  /\ IF lines' = <<>>
     THEN pc' = "loop" /\ idx' = idx
     ELSE pc' = "question" /\ idx' = 1
  /\ UNCHANGED <<source_name, module, difficulty, text, blocks, qnum,
                 question_text, options, answer_letter, explanation,
                 questions>>

\* lines 76-85
QuestionLine ==
  /\ pc = "question"
  /\ idx' = idx + 1
  /\ IF MatchesQTag(lines[idx])
     THEN /\ qnum' = <<QTagNumber(lines[idx])>>
          /\ question_text' = QTagText(lines[idx])
     ELSE /\ qnum' = NoNumber
          /\ question_text' = lines[idx]
  /\ pc' = "wrap"
  /\ UNCHANGED <<source_name, module, difficulty, text, blocks, bi, lines,
                 options, answer_letter, explanation, questions>>

\* lines 88-94
QuestionContinuation ==
  /\ pc = "wrap"
  /\ LET w == QuestionWrap(lines, idx, question_text)
     IN  idx' = w.idx /\ question_text' = w.question_text
  /\ pc' = "options"
  /\ UNCHANGED <<source_name, module, difficulty, text, blocks, bi, lines,
                 qnum, options, answer_letter, explanation, questions>>

\* lines 97-117
Options ==
  /\ pc = "options"
  /\ LET o == OptionsLoop(lines, idx, <<>>)
     IN  idx' = o.idx /\ options' = o.options
  /\ pc' = "answer"
  /\ UNCHANGED <<source_name, module, difficulty, text, blocks, bi, lines,
                 qnum, question_text, answer_letter, explanation, questions>>

\* lines 120-126
Answer ==
  /\ pc = "answer"
  /\ LET a == AnswerScan(lines, idx, idx)
     IN  idx' = a.idx /\ answer_letter' = a.answer_letter
  /\ pc' = "explanation"
  /\ UNCHANGED <<source_name, module, difficulty, text, blocks, bi, lines,
                 qnum, question_text, options, explanation, questions>>

\* lines 129-139
Explanation ==
  /\ pc = "explanation"
  /\ explanation' =
       ExplanationScan(lines, idx,
         [explanation_started |-> FALSE, explanation |-> <<>>])
  /\ pc' = "assemble"
  /\ UNCHANGED <<source_name, module, difficulty, text, blocks, bi, lines,
                 idx, qnum, question_text, options, answer_letter,
                 questions>>

\* the q_obj of lines 155-164
QObj ==
  [question       |-> question_text,
   hint           |-> <<>>,
   answerOptions  |-> AnswerOptions(options, answer_letter, explanation),
   source         |-> source_name,
   module         |-> module,
   difficulty     |-> difficulty,
   questionNumber |-> qnum]

\* lines 141-166
Assemble ==
  /\ pc = "assemble"
  /\ IF Malformed(options, answer_letter)
     THEN questions' = questions /\ pc' = "skipped"
     ELSE questions' = Append(questions, QObj) /\ pc' = "appended"
  /\ UNCHANGED <<source_name, module, difficulty, text, blocks, bi, locals>>

\* line 168
Return ==
  /\ pc \in LoopHeads
  /\ bi = Len(blocks)
  /\ pc' = "done"
  /\ UNCHANGED <<source_name, module, difficulty, text, blocks, bi, locals,
                 questions>>

Next ==
  \/ TagMetadata
  \/ Normalize
  \/ ReturnEmpty
  \/ Split
  \/ BeginBlock
  \/ QuestionLine
  \/ QuestionContinuation
  \/ Options
  \/ Answer
  \/ Explanation
  \/ Assemble
  \/ Return

(***************************************************************************)
(* The inputs.                                                             *)
(***************************************************************************)
\* the state on entry to parse_quiz_text(t, label)
Entry(t, label) ==
  /\ source_name = label
  /\ text = t
  /\ module = <<>>
  /\ difficulty = ""
  /\ blocks = <<>>
  /\ bi = 0
  /\ lines = <<>>
  /\ idx = 0
  /\ qnum = NoNumber
  /\ question_text = <<>>
  /\ options = <<>>
  /\ answer_letter = None
  /\ explanation = <<>>
  /\ questions = <<>>
  /\ pc = "tag"

\* raw lines joined by line breaks, with one more line break (a blank line)
\* before the lines at the positions of cuts
RECURSIVE TextOf(_, _, _)
TextOf(ls, cuts, p) ==
  IF p > Len(ls) THEN <<>>
  ELSE (IF p = 1 THEN <<>>
        ELSE IF p \in cuts THEN <<"\n", "\n">> ELSE <<"\n">>)
       \o ls[p] \o TextOf(ls, cuts, p + 1)

\* the places of a blank line that separates two blocks: before a marker line
CutPlaces(ls) == {p \in 2..Len(ls) : MarkerAt(ls[p], 1)}

\* the raw lines the extractor's texts are made of
QuizLines ==
  { <<"Q","1","2","."," ","q">>,
    <<"A","."," ","a">>,
    <<" ","b",".","b">>,
    <<"A","n","s","w","e","r",":"," ","A">>,
    <<"a","n","s","w","e","r",":","B">>,
    <<"A","n","s","w","e","r",":"," ","E">>,
    <<"E","x","p","l","a","n","a","t","i","o","n",":"," ","e">> }

\* the first raw line of a text: with and without a question tag
QuizFirstLines ==
  { <<"Q","1","2","."," ","q">>,
    <<"A","."," ","a">> }

QuizLabel == <<"M","D","0","3"," ","T","B"," ","m","e","d">>

\* the extractor's inputs: texts of at most MaxLines raw lines, a blank line
\* before any of the marker lines
Init ==
  \E ls \in SeqsOf(QuizLines, 0, MaxLines) :
    /\ ls # <<>> => ls[1] \in QuizFirstLines
    /\ \E cuts \in SUBSET CutPlaces(ls) :
         Entry(TextOf(ls, cuts, 1), QuizLabel)

Spec == Init /\ [][Next]_vars

\* the raw lines the splitter's texts are made of: blank lines, a marker
\* line, and lines that are nearly one
SplitLines ==
  { <<>>,
    <<" ">>,
    <<"Q","1","2",".","a">>,
    <<" ","Q","2",".">>,
    <<"q","3",".">>,
    <<"Q","4","\r">> }

\* the splitter's inputs: texts of at most MaxTextLines raw lines
InitSplit ==
  \E ls \in SeqsOf(SplitLines, 0, MaxTextLines) :
    Entry(JoinNL(ls), QuizLabel)

SpecSplit == InitSplit /\ [][Next]_vars

\* the pieces the tagger's labels are made of
LabelPieces ==
  { <<"H","a","r","d">>,
    <<"e","a","s","y">>,
    <<"m","e","d">>,
    <<"M","e","d","i","u","m">>,
    <<" ">>,
    <<" ","T","B"," ">>,
    <<"M","o","d","0","7">>,
    <<"x">> }

Labels == {Concat(ps) : ps \in SeqsOf(LabelPieces, 0, MaxPieces)}

\* the tagger's inputs: labels of at most MaxPieces pieces, on an empty text
\* and on a one-question text
TaggerTexts ==
  { <<>>,
    <<"Q","1","."," ","q","\n","A","."," ","a","\n",
      "A","n","s","w","e","r",":"," ","A">> }

InitTagger ==
  \E label \in Labels : \E t \in TaggerTexts : Entry(t, label)

SpecTagger == InitTagger /\ [][Next]_vars

(***************************************************************************)
(* What the properties are stated with.  These definitions describe lines  *)
(* and results in the words of the specification; they do not use the      *)
(* loops and pattern matchers above.                                       *)
(***************************************************************************)
Least(S) == CHOOSE x \in S : \A y \in S : x <= y

Greatest(S) == CHOOSE x \in S : \A y \in S : x >= y

\* the strings of parts, each joined to the next with a single space
RECURSIVE JoinSpace(_)
JoinSpace(parts) ==
  IF Len(parts) = 1 THEN parts[1]
  ELSE parts[1] \o <<" ">> \o JoinSpace(Tail(parts))

\* s with its leading white space removed
RECURSIVE DropLeadingSpace(_)
DropLeadingSpace(s) ==
  IF s # <<>> /\ s[1] \in {" ", "\t", "\r", "\n"}
  THEN DropLeadingSpace(Tail(s)) ELSE s

\* p is a prefix of s, letter case aside
PrefixNoCase(s, p) ==
  /\ Len(s) >= Len(p)
  /\ \A k \in 1..Len(p) : s[k] = p[k] \/ Lower(s[k]) = p[k]

\* an option line: a letter A-D, then a period, in either case
OptionForm(line) ==
  /\ Len(line) >= 2
  /\ line[1] \in {"A", "B", "C", "D", "a", "b", "c", "d"}
  /\ line[2] = "."

\* a line that starts with "answer:", in either case
AnswerTagForm(line) ==
  PrefixNoCase(line, <<"a","n","s","w","e","r",":">>)

\* a line that starts with "explanation:", in either case
ExplanationTagForm(line) ==
  PrefixNoCase(line, <<"e","x","p","l","a","n","a","t","i","o","n",":">>)

\* the length of the tag "Q<digits>." a line starts with, or 0
QTagLength(line) ==
  LET ends == {n \in 3..Len(line) :
                 /\ line[1] \in {"Q", "q"}
                 /\ line[n] = "."
                 /\ \A k \in 2..(n - 1) : IsDigit(line[k])}
  IN  IF ends = {} THEN 0 ELSE Least(ends)

\* the position where question continuation stops: the first line after the
\* first that is an option line or starts with "answer:", or the end
QuestionStop(ls) ==
  Least({i \in 2..(Len(ls) + 1) :
           i > Len(ls) \/ OptionForm(ls[i]) \/ AnswerTagForm(ls[i])})

\* the position where option consumption stops, having started at s: the
\* first line that is not an option line and that no option absorbs
OptionStop(ls, s) ==
  Least({e \in s..(Len(ls) + 1) :
           \/ e > Len(ls)
           \/ /\ ~OptionForm(ls[e])
              /\ e = s \/ AnswerTagForm(ls[e]) \/ ExplanationTagForm(ls[e])})

\* the text of the option that starts on line i, when the run ends before e:
\* the line after its "X." and the lines up to the next option line
OptionTextOf(ls, i, e) ==
  LET nxt == Least({j \in (i + 1)..e : j = e \/ OptionForm(ls[j])})
  IN  JoinSpace(<<DropLeadingSpace(SubSeq(ls[i], 3, Len(ls[i])))>>
                \o SubSeq(ls, i + 1, nxt - 1))

\* the options of the run of lines s..e-1, one per option line, in order
RECURSIVE OptionsOf(_, _, _)
OptionsOf(ls, s, e) ==
  IF s >= e THEN <<>>
  ELSE IF OptionForm(ls[s])
       THEN <<[letter |-> Upper(ls[s][1]), text |-> OptionTextOf(ls, s, e)]>>
            \o OptionsOf(ls, s + 1, e)
  ELSE OptionsOf(ls, s + 1, e)

\* the places of pc where the locals hold the current block's results of a step
AfterWrap == {"options", "answer", "explanation", "assemble", "appended",
              "skipped"}
AfterOptions == {"answer", "explanation", "assemble", "appended", "skipped"}
AfterAnswer == {"explanation", "assemble", "appended", "skipped"}
AfterExplanation == {"assemble", "appended", "skipped"}

\* the number of options of record q marked correct
CorrectCount(q) ==
  Cardinality({j \in 1..Len(q.answerOptions) : q.answerOptions[j].isCorrect})

LastQuestion == questions[Len(questions)]

(***************************************************************************)
(* The properties.                                                         *)
(***************************************************************************)

C2_ExactlyOneCorrect ==
  \A k \in 1..Len(questions) : CorrectCount(questions[k]) = 1

\* C3: every record has between 1 and 4 options, each from an option line
\* with a letter in A-D, no two of them from the same letter.
C3_OneToFourDistinctLetters ==
  pc = "appended" =>
    /\ Len(LastQuestion.answerOptions) = Len(options)
    /\ Len(options) \in 1..4
    /\ \A j \in 1..Len(options) : options[j].letter \in {"A", "B", "C", "D"}
    /\ \A i, j \in 1..Len(options) :
         i # j => options[i].letter # options[j].letter

\* a block in the format the parser is written for: a tagged question line,
\* then option lines and the lines that continue them (no explanation-tag
\* line yet), then exactly one answer-tag line, which gives a letter, the
\* letter of one of the option lines
WellFormedBlock(ls) ==
  LET optionLines == {i \in 1..Len(ls) : OptionForm(ls[i])}
      answerLines == {i \in 1..Len(ls) : AnswerTagForm(ls[i])}
  IN  /\ QTagLength(ls[1]) > 0
      /\ optionLines # {}
      /\ Cardinality(answerLines) = 1
      /\ \A a \in answerLines :
           /\ MatchesAnswer(ls[a])
           /\ \A i \in optionLines : i < a
           /\ \A i \in 1..(a - 1) : ~ExplanationTagForm(ls[i])
           /\ \E i \in optionLines : Upper(ls[i][1]) = AnswerLetter(ls[a])

\* C4: a well-formed block yields exactly one record, and the record has
\* exactly one option marked correct.
C4_WellFormedOneRecordOneCorrect ==
  (pc \in {"appended", "skipped"} /\ WellFormedBlock(lines)) =>
    /\ pc = "appended"
    /\ CorrectCount(LastQuestion) = 1

\* s contains needle, letter case aside (needle given in lower case)
HasNoCase(s, needle) ==
  \E i \in 1..(Len(s) - Len(needle) + 1) :
    \A k \in 1..Len(needle) : Lower(s[i + k - 1]) = needle[k]

\* the difficulty the specification's precedence rule gives a label, the
\* rule for Medium being that the label contains one of mediumWords
DifficultyRule(label, mediumWords) ==
  IF HasNoCase(label, <<"h","a","r","d">>) THEN "Hard"
  ELSE IF \E w \in mediumWords : HasNoCase(label, w) THEN "Medium"
  ELSE IF HasNoCase(label, <<"e","a","s","y">>) THEN "Easy"
  ELSE "Unknown"

\* C5, as stated: the difficulty of a label is Hard if it contains "hard",
\* otherwise Medium if and only if it contains "medium" or "med ", otherwise
\* Easy if it contains "easy", otherwise Unknown.
C5_DifficultyAsStated ==
  pc # "tag" =>
    difficulty = DifficultyRule(source_name,
                   {<<"m","e","d","i","u","m">>, <<"m","e","d"," ">>})

\* C5, amended: the difficulty of a label is Hard if it contains "hard",
\* otherwise Medium if and only if it contains "medium", "med " or " tb med",
\* otherwise Easy if it contains "easy", otherwise Unknown.
C5_DifficultyWithTbMed ==
  pc # "tag" =>
    difficulty = DifficultyRule(source_name,
                   {<<"m","e","d","i","u","m">>, <<"m","e","d"," ">>,
                    <<" ","t","b"," ","m","e","d">>})

\* C5, its case: a label tagged Medium that contains "easy" and neither
\* "medium" nor "med ".
C5_Witness ==
  /\ pc = "done"
  /\ difficulty = "Medium"
  /\ ~HasNoCase(source_name, <<"m","e","d","i","u","m">>)
  /\ ~HasNoCase(source_name, <<"m","e","d"," ">>)
  /\ HasNoCase(source_name, <<"e","a","s","y">>)

\* the lines of the normalised text
TextLines == SplitNL(text)

\* a line of nothing but white space
BlankLine(line) == \A k \in 1..Len(line) : line[k] \in {" ", "\t", "\r"}

\* a line beginning with a literal Q, one or more digits and a period
MarkerLine(line) ==
  /\ Len(line) >= 3
  /\ line[1] = "Q"
  /\ \E n \in 3..Len(line) :
       line[n] = "." /\ \A k \in 2..(n - 1) : IsDigit(line[k])

\* the block boundaries: the marker lines that immediately follow a blank line
Boundaries ==
  {k \in 2..Len(TextLines) :
     MarkerLine(TextLines[k]) /\ BlankLine(TextLines[k - 1])}

\* the block that starts on line k: the lines up to the next boundary, less
\* the blank lines that end them
BlockFrom(k) ==
  LET nxt  == Least({j \in (k + 1)..(Len(TextLines) + 1) :
                       j > Len(TextLines) \/ j \in Boundaries})
      last == Greatest({j \in k..(nxt - 1) : ~BlankLine(TextLines[j])})
  IN  JoinNL(SubSeq(TextLines, k, last))

\* the k-th member of a finite set of numbers, in increasing order
RECURSIVE Nth(_, _)
Nth(S, k) == IF k = 1 THEN Least(S) ELSE Nth(S \ {Least(S)}, k - 1)

\* C6: an empty normalised text ends the parse with an empty result and no
\* split; otherwise, once split, there is one block more than there are
\* boundaries, the
\* first block starts with the first line of the text, and every later block
\* starts with the marker line of its boundary and runs to the blank lines
\* before the next one.
C6_SplitAtBlankLineBeforeMarker ==
  /\ (pc \notin {"tag", "normalize", "check"} /\ text = <<>>)
     => pc = "done" /\ blocks = <<>> /\ questions = <<>>
  /\ (pc = "loop" /\ bi = 0)
     => /\ text # <<>>
        /\ Len(blocks) = 1 + Cardinality(Boundaries)
        /\ blocks[1] = BlockFrom(1)
        /\ \A k \in 2..Len(blocks) :
             /\ blocks[k] = BlockFrom(Nth(Boundaries, k - 1))
             /\ SplitNL(blocks[k])[1] = TextLines[Nth(Boundaries, k - 1)]

\* C6, its case: a text of three blocks, the first without a marker line.
C6_Witness ==
  /\ pc = "loop"
  /\ Len(blocks) = 3
  /\ ~MarkerLine(SplitNL(blocks[1])[1])

\* the first line's text: what follows the tag "Q<digits>." and its white
\* space when the line has the tag, the whole line otherwise
FirstLineText(line) ==
  IF QTagLength(line) > 0
  THEN DropLeadingSpace(SubSeq(line, QTagLength(line) + 1, Len(line)))
  ELSE line

\* C8: once question continuation is over, the question text is the first
\* line's text and the lines after it up to the stopping line, each joined
\* to the next with one space; it holds no line break, the next line to read
\* is the stopping line, and an appended record carries that question.
C8_QuestionIsFirstLinesJoined ==
  pc \in AfterWrap =>
    LET stop == QuestionStop(lines)
    IN  /\ question_text =
             JoinSpace(<<FirstLineText(lines[1])>>
                       \o SubSeq(lines, 2, stop - 1))
        /\ \A k \in 1..Len(question_text) : question_text[k] # "\n"
        /\ pc = "options" => idx = stop
        /\ pc = "appended" => LastQuestion.question = question_text

\* C8, its case: a record whose question wraps onto a second line and stops
\* at an option line.
C8_Witness ==
  /\ pc = "appended"
  /\ QuestionStop(lines) > 2
  /\ QTagLength(lines[1]) > 0
  /\ OptionForm(lines[QuestionStop(lines)])

\* C9: once option consumption is over, the options are those of the option
\* lines of the run that starts where question continuation stopped and ends
\* at the first line after it that is no option line and that no option
\* absorbs, each with the lines up to the next option line joined to its
\* text; the next line to read is the line that ended the run, and an
\* appended record has these options and no other.
C9_OptionsAreTheFirstRun ==
  pc \in AfterOptions =>
    LET s == QuestionStop(lines)
        e == OptionStop(lines, s)
    IN  /\ options = OptionsOf(lines, s, e)
        /\ pc = "answer" => idx = e
        /\ pc = "appended" =>
             /\ Len(LastQuestion.answerOptions) = Len(options)
             /\ \A j \in 1..Len(options) :
                  LastQuestion.answerOptions[j].text = options[j].text

\* C9, its case: a record from a block with an option line after the run of
\* options has ended.
C9_Witness ==
  /\ pc = "appended"
  /\ \E i \in OptionStop(lines, QuestionStop(lines))..Len(lines) :
       OptionForm(lines[i])

\* the answer lines at or after the position where option consumption
\* stopped, an answer line being one that form holds of
AnswerLinesBy(Form(_)) ==
  {i \in OptionStop(lines, QuestionStop(lines))..Len(lines) : Form(lines[i])}

\* the letter after the tag and its white space
LetterOf(line) ==
  Upper(DropLeadingSpace(SubSeq(line, 8, Len(line)))[1])

\* the answer letter and the position after the answer scan, when the answer
\* lines are those form holds of
AnswerBy(Form(_)) ==
  IF AnswerLinesBy(Form) = {}
  THEN [letter |-> None, next |-> OptionStop(lines, QuestionStop(lines))]
  ELSE [letter |-> LetterOf(lines[Least(AnswerLinesBy(Form))]),
        next   |-> Least(AnswerLinesBy(Form)) + 1]

\* "answer:", a space, and a single letter A-D, in either case
AnswerFormAsStated(line) ==
  /\ Len(line) = 9
  /\ AnswerTagForm(line)
  /\ line[8] = " "
  /\ line[9] \in {"A", "B", "C", "D", "a", "b", "c", "d"}

\* "answer:", any white space, and a letter A-D, in either case, whatever
\* follows the letter
AnswerFormLenient(line) ==
  /\ AnswerTagForm(line)
  /\ \E j \in 8..Len(line) :
       /\ \A k \in 8..(j - 1) : line[k] \in {" ", "\t", "\r"}
       /\ line[j] \in {"A", "B", "C", "D", "a", "b", "c", "d"}

\* C10, as stated: the answer letter is the upper-cased letter of the first
\* line, at or after the position where option consumption stopped, of the
\* form "answer:", a space, a single letter A-D; with no such line no letter
\* is captured; the lines before it are skipped and the lines after it are
\* the next to read.
C10_AnswerAsStated ==
  pc \in AfterAnswer =>
    /\ answer_letter = AnswerBy(AnswerFormAsStated).letter
    /\ idx = AnswerBy(AnswerFormAsStated).next

\* C10, amended: the same, the form being "answer:", optional white space
\* and a letter A-D, whatever follows the letter.
C10_AnswerIsFirstLenientMatch ==
  pc \in AfterAnswer =>
    /\ answer_letter = AnswerBy(AnswerFormLenient).letter
    /\ idx = AnswerBy(AnswerFormLenient).next

\* C10, its case: a letter captured from a line without the space, after a
\* skipped line, with a later answer line ignored.
C10_Witness ==
  /\ pc = "explanation"
  /\ answer_letter = "B"
  /\ idx > OptionStop(lines, QuestionStop(lines)) + 1
  /\ ~AnswerFormAsStated(lines[idx - 1])
  /\ \E i \in idx..Len(lines) : AnswerFormLenient(lines[i])

\* the explanation-tag lines at or after the position after the answer scan
ExplanationLines == {i \in idx..Len(lines) : ExplanationTagForm(lines[i])}

\* the explanation captured from line i on: the line after its tag and white
\* space, and every line after it to the end of the block
ExplanationFrom(i) ==
  JoinSpace(<<DropLeadingSpace(SubSeq(lines[i], 13, Len(lines[i])))>>
            \o SubSeq(lines, i + 1, Len(lines)))

\* C7: with an answer line matched, the explanation is captured from the
\* first explanation-tag line after it on, every later line appended
\* whatever its content (another explanation-tag line too); an appended
\* record carries it as the rationale of every option.
C7_ExplanationFromFirstTag ==
  (pc \in AfterExplanation /\ answer_letter # None
     /\ ExplanationLines # {}) =>
    /\ explanation = ExplanationFrom(Least(ExplanationLines))
    /\ pc = "appended" =>
         \A j \in 1..Len(LastQuestion.answerOptions) :
           LastQuestion.answerOptions[j].rationale = explanation

=============================================================================
